---- MODULE Spec2Model ----
(***************************************************************************)
(* LC-3 virtual machine (src/vm.c): memory, register file, memory-mapped   *)
(* keyboard, the fetch/decode/execute loop with its sixteen opcode         *)
(* handlers and six trap routines, the abort paths and the interrupt       *)
(* handler.                                                                *)
(*                                                                         *)
(* One action models one whole cycle of the loop in main(): the fetch      *)
(* `instr = mem_read(registers[R_PC]++)` followed by the handler of the    *)
(* opcode that was fetched.                                                *)
(***************************************************************************)
EXTENDS Integers, Sequences, FiniteSets, TLC

(***************************************************************************)
(* Enumerations of src/vm.c                                                *)
(***************************************************************************)
R_R0 == 0
R_R7 == 7
R_PC == 8
R_COND == 9
R_COUNT == 10

FL_POS == 1
FL_ZRO == 2
FL_NEG == 4

OP_BR == 0
OP_ADD == 1
OP_LD == 2
OP_ST == 3
OP_JSR == 4
OP_AND == 5
OP_LDR == 6
OP_STR == 7
OP_RTI == 8
OP_NOT == 9
OP_LDI == 10
OP_STI == 11
OP_JMP == 12
OP_RES == 13
OP_LEA == 14
OP_TRAP == 15

MR_KBSR == 65024
MR_KBDR == 65026

TRAP_GETC == 32
TRAP_OUT == 33
TRAP_PUTS == 34
TRAP_IN == 35
TRAP_PUTSP == 36
TRAP_HALT == 37

UINT16_MAX == 65535
PC_START == 12288

\* uint16_t arithmetic: every stored word is reduced modulo 2^16.
Word == 65536
U16(x) == x % Word

(***************************************************************************)
(* Bit operations of C on non-negative ints                                *)
(***************************************************************************)
RECURSIVE BitAnd(_, _)
BitAnd(a, b) ==
    IF a = 0 \/ b = 0 THEN 0
    ELSE (a % 2) * (b % 2) + 2 * BitAnd(a \div 2, b \div 2)

RECURSIVE BitOr(_, _)
BitOr(a, b) ==
    IF a = 0 THEN b
    ELSE IF b = 0 THEN a
    ELSE (IF (a % 2) + (b % 2) > 0 THEN 1 ELSE 0) + 2 * BitOr(a \div 2, b \div 2)

RECURSIVE Pow2(_)
Pow2(n) == IF n = 0 THEN 1 ELSE 2 * Pow2(n - 1)

Shr(x, n) == x \div Pow2(n)
Shl(x, n) == x * Pow2(n)
BitNot16(x) == U16(UINT16_MAX - x)

(***************************************************************************)
(* signExtend, updateFlgs                                                  *)
(***************************************************************************)
\* Mutation of signExtend: tests bit bitCount instead of bit bitCount-1.
signExtendWrongBit(x, bitCount) ==
    IF BitAnd(Shr(x, bitCount), 1) = 1
    THEN U16(BitOr(x, Shl(UINT16_MAX, bitCount)))
    ELSE x

\* x |= (0xFFFF << bitCount) is computed in int and truncated to uint16_t.
signExtend(x, bitCount) ==
    IF BitAnd(Shr(x, bitCount - 1), 1) = 1
    THEN U16(BitOr(x, Shl(UINT16_MAX, bitCount)))
    ELSE x

\* Mutation of updateFlgs: a value with bit 15 set is reported as positive.
updateFlgsNoNeg(regs, r) ==
    IF regs[r] = 0 THEN [regs EXCEPT ![R_COND] = FL_ZRO]
    ELSE [regs EXCEPT ![R_COND] = FL_POS]

\* The register file after updateFlgs(r).
updateFlgs(regs, r) ==
    IF regs[r] = 0 THEN [regs EXCEPT ![R_COND] = FL_ZRO]
    ELSE IF Shr(regs[r], 15) # 0 THEN [regs EXCEPT ![R_COND] = FL_NEG]
    ELSE [regs EXCEPT ![R_COND] = FL_POS]

(***************************************************************************)
(* Memory.  `uint16_t memory[UINT16_MAX]` is an array of UINT16_MAX cells  *)
(* in static storage, so every cell starts at 0.  The model keeps the      *)
(* array sparse: `memory` is a function whose domain is the set of cells   *)
(* holding a nonzero word, and every other cell of the array holds 0.      *)
(***************************************************************************)
InArray(addr) == addr >= 0 /\ addr < UINT16_MAX

Cell(m, addr) == IF addr \in DOMAIN m THEN m[addr] ELSE 0

Store(m, addr, val) ==
    IF val = 0
    THEN [x \in (DOMAIN m) \ {addr} |-> m[x]]
    ELSE [x \in (DOMAIN m) \cup {addr} |-> IF x = addr THEN val ELSE m[x]]

\* What an access of memory[65535], one cell past the end of the array,
\* can yield: the word of whatever object the build places there.
OobVals == {0, 4660}

\* check_key(): a key press is waiting on the console (the wait on the
\* input handle returns at once and _kbhit() is true).
check_key(k) == Len(k) > 0

\* Mutation of mem_read: the status poll leaves the pending key unread and
\* the data cell untouched.
mem_readNoData(m, k, addr) ==
    IF addr = MR_KBSR
    THEN IF check_key(k)
         THEN {[val |-> 32768, memory |-> Store(m, MR_KBSR, 32768),
                kbd |-> k, oob |-> FALSE, key |-> Head(k)]}
         ELSE {[val |-> 0, memory |-> Store(m, MR_KBSR, 0),
                kbd |-> k, oob |-> FALSE, key |-> -1]}
    ELSE IF InArray(addr)
    THEN {[val |-> Cell(m, addr), memory |-> m, kbd |-> k, oob |-> FALSE, key |-> -1]}
    ELSE {[val |-> v, memory |-> m, kbd |-> k, oob |-> TRUE, key |-> -1] : v \in OobVals}

\* mem_read(addr) with memory m and pending keys k: the set of outcomes
\* [val: the word returned, memory, kbd: the state it leaves, oob: the read
\* was outside the array, key: the key a ready poll consumed, else -1].
mem_read(m, k, addr) ==
    IF addr = MR_KBSR
    THEN IF check_key(k)
         THEN LET m1 == Store(Store(m, MR_KBSR, Shl(1, 15)), MR_KBDR, U16(Head(k)))
              IN  {[val |-> Cell(m1, addr), memory |-> m1, kbd |-> Tail(k),
                    oob |-> FALSE, key |-> Head(k)]}
         ELSE LET m1 == Store(m, MR_KBSR, 0)
              IN  {[val |-> Cell(m1, addr), memory |-> m1, kbd |-> k,
                    oob |-> FALSE, key |-> -1]}
    ELSE IF InArray(addr)
    THEN {[val |-> Cell(m, addr), memory |-> m, kbd |-> k, oob |-> FALSE, key |-> -1]}
    ELSE {[val |-> v, memory |-> m, kbd |-> k, oob |-> TRUE, key |-> -1] : v \in OobVals}

\* mem_write(address, val): the set of outcomes [memory, registers, oob].
\* A store to memory[65535] lands on the object that follows the array:
\* either nothing the machine observes, or the first word of `registers`,
\* the array declared right after `memory`.
mem_write(m, regs, addr, val) ==
    IF InArray(addr)
    THEN {[memory |-> Store(m, addr, val), registers |-> regs, oob |-> FALSE]}
    ELSE {[memory |-> m, registers |-> regs, oob |-> TRUE],
          [memory |-> m, registers |-> [regs EXCEPT ![R_R0] = val], oob |-> TRUE]}

\* The entry a mem_read leaves in the cycle's read log.
ReadLog(addr, r) == [addr |-> addr, val |-> r.val, key |-> r.key]

(***************************************************************************)
(* State                                                                   *)
(***************************************************************************)
VARIABLES
    memory,     \* uint16_t memory[UINT16_MAX], sparse (see above)
    registers,  \* uint16_t registers[R_COUNT]
    running,    \* int running, the loop flag of main()
    instr,      \* uint16_t instr, the word fetched by the last cycle
    kbd,        \* key presses waiting on the console, oldest first
    out,        \* bytes written to stdout so far
    mode,       \* console input mode: "raw" or "cooked"
    at,         \* where the process is: "loading", "loop", or how it ended:
                \* "usage", "loadfail", "exited", "aborted", "interrupted"
    oob,        \* some access so far indexed memory[] outside the array
    reads,      \* the mem_read calls of the last cycle, in order
    steps,      \* cycles executed so far
    fn,         \* arguments and result of the last direct signExtend call
    cap,        \* cycles this run is followed for
    ld,         \* the argument loop of main(): argv[1..], j, the paths handed
                \* to readImage so far and the failures printed
    link        \* history: the return address of the last offset-mode JSR
                \* and whether R7 still holds what it held after that JSR

vars == <<memory, registers, running, instr, kbd, out, mode, at, oob, reads, steps, fn, cap, ld, link>>

\* Bounds of the model.
MaxSteps == 3
MaxKeys == 1

\* Key codes the console can deliver: 'A', and one above 0x7F.
Keys == {65, 233}

(***************************************************************************)
(* Instruction encodings (the layouts main() decodes) and the images the   *)
(* machine is started on.                                                  *)
(***************************************************************************)
EncRRR(op, r0, r1, r2) == op * 4096 + r0 * 512 + r1 * 64 + r2
EncRRI(op, r0, r1, imm5) == op * 4096 + r0 * 512 + r1 * 64 + 32 + (imm5 % 32)
EncNOT(r0, r1) == OP_NOT * 4096 + r0 * 512 + r1 * 64 + 63
EncPC9(op, r0, pcOffset) == op * 4096 + r0 * 512 + (pcOffset % 512)
EncBase(op, r0, r1, offset) == op * 4096 + r0 * 512 + r1 * 64 + (offset % 64)
EncJSR(longPcOffset) == OP_JSR * 4096 + 2048 + (longPcOffset % 2048)
EncJSRR(r1) == OP_JSR * 4096 + r1 * 64
EncJMP(r1) == OP_JMP * 4096 + r1 * 64
EncTRAP(vect) == OP_TRAP * 4096 + vect

\* Data words every image carries below the program, at 0x2FF8..0x2FFF:
\* 0x7FFF, the two keyboard addresses, 0xFFFF, a pointer to the first
\* word, and the string "Hi".
Data ==
    (12280 :> 32767) @@ (12281 :> MR_KBSR) @@ (12282 :> MR_KBDR) @@
    (12283 :> UINT16_MAX) @@ (12284 :> 12280) @@ (12285 :> 72) @@ (12286 :> 105)

\* The instruction words tried at program position p (address PC_START + p);
\* PC-relative offsets are taken from the incremented program counter.
InstrsAt(p) ==
    LET to(addr) == addr - (PC_START + p + 1) IN
    { EncRRI(OP_ADD, 1, 1, 1), EncRRI(OP_ADD, 0, 0, -1), EncRRR(OP_ADD, 2, 1, 0),
      EncRRI(OP_ADD, 2, 1, 1),
      EncRRI(OP_AND, 3, 1, 15), EncRRI(OP_AND, 1, 1, -16), EncRRR(OP_AND, 2, 1, 0),
      EncNOT(0, 0), EncNOT(3, 1),
      EncPC9(OP_BR, 7, 1), EncPC9(OP_BR, 2, 1), EncPC9(OP_BR, 0, 1),
      EncPC9(OP_BR, 4, -2), EncPC9(OP_BR, 1, 2),
      EncJMP(0), EncJMP(1), EncJMP(7),
      EncJSR(2), EncJSR(-3), EncJSRR(1), EncJSRR(7),
      EncPC9(OP_LD, 1, to(12280)), EncPC9(OP_LD, 1, to(12281)), EncPC9(OP_LD, 0, to(12283)),
      EncPC9(OP_LDI, 1, to(12284)), EncPC9(OP_LDI, 0, to(12281)),
      EncPC9(OP_LDI, 2, to(12282)), EncPC9(OP_LDI, 3, to(12283)),
      EncBase(OP_LDR, 2, 1, 2), EncBase(OP_LDR, 3, 0, 0), EncBase(OP_LDR, 2, 0, -1),
      EncPC9(OP_LEA, 0, to(12285)), EncPC9(OP_LEA, 1, 3),
      EncPC9(OP_ST, 1, to(12287)),
      EncPC9(OP_STI, 1, to(12284)), EncPC9(OP_STI, 0, to(12284)), EncPC9(OP_STI, 1, to(12283)),
      EncBase(OP_STR, 1, 0, 0), EncBase(OP_STR, 1, 1, -1),
      EncTRAP(TRAP_GETC), EncTRAP(TRAP_OUT), EncTRAP(TRAP_PUTS), EncTRAP(TRAP_IN),
      EncTRAP(TRAP_PUTSP), EncTRAP(TRAP_HALT), EncTRAP(38), EncTRAP(0),
      OP_RTI * 4096, OP_RES * 4096 }

\* Memory once the image <<a, b>> has been loaded over the data words.
LoadImage(a, b) == Store(Store(Data, PC_START, a), PC_START + 1, b)

NoCall == [x |-> 0, bitCount |-> 0, result |-> 0]

\* No offset-mode JSR has run yet.
NoLink == [ret |-> 0, kept |-> FALSE]

\* The argument loop once it is over: the one path was read, nothing printed.
Loaded ==
    [argv |-> <<"image.obj">>, j |-> 2, tried |-> <<"image.obj">>, reported |-> <<>>]

\* Memory m once the words ws have been loaded at a, a + 1, ...
RECURSIVE LoadWords(_, _, _)
LoadWords(m, a, ws) ==
    IF ws = <<>> THEN m
    ELSE LoadWords(Store(m, a, Head(ws)), a + 1, Tail(ws))

\* Memory once an image holding the words ws with origin PC_START is loaded.
LoadProgram(ws) == LoadWords(<<>>, PC_START, ws)

\* A call and its return: JSR to 0x3002, one instruction of called code,
\* JMP R7, and HALT at the return address 0x3001.  The called instruction
\* leaves R7 alone (ADD R1, ST R7) or writes it (ADD R7, JSRR).
CallBodies ==
    { EncRRI(OP_ADD, 1, 1, 1), EncPC9(OP_ST, 7, 5),
      EncRRI(OP_ADD, 7, 7, 1), EncJSRR(1) }

CallPrograms ==
    { <<EncJSR(1), EncTRAP(TRAP_HALT), body, EncJMP(7)>> : body \in CallBodies }

\* A data word kept in the last cell of the array, memory[65534].
TopWord == 21845

\* PC-relative instructions next to the ends of the address space.  Low:
\* LEA R1 then JMP R0 (R0 = 0) lead to address 0, whose instruction reaches
\* back below 0.  High: NOT, ADD #-1, JMP R0 lead to 0xFFFE, whose
\* instruction reaches forward past 0xFFFF.
LowImages ==
    { LoadWords(LoadWords(LoadProgram(<<EncPC9(OP_LEA, 1, 0), EncJMP(0)>>),
                          0, <<w>>), UINT16_MAX - 1, <<TopWord>>)
      : w \in { EncPC9(OP_LEA, 2, -2), EncPC9(OP_LD, 2, -3), EncPC9(OP_ST, 1, -3),
                EncPC9(OP_LD, 2, -2), EncPC9(OP_ST, 1, -2) } }

HighImages ==
    { LoadWords(LoadWords(LoadProgram(<<EncNOT(0, 0), EncRRI(OP_ADD, 0, 0, -1),
                                        EncJMP(0)>>),
                          0, <<TopWord>>), UINT16_MAX - 1, <<w>>)
      : w \in { EncPC9(OP_LEA, 2, 3), EncPC9(OP_LD, 2, 1), EncPC9(OP_ST, 0, 2) } }

\* NOT R0 and JMP R0 lead to a fetch at 0xFFFF; ADD R1, R1, #1 waits at
\* address 0.
TopFetchImage ==
    LoadWords(LoadProgram(<<EncNOT(0, 0), EncJMP(0)>>), 0, <<EncRRI(OP_ADD, 1, 1, 1)>>)

\* Strings written by TRAP_PUTS and TRAP_PUTSP.  In the program: the words
\* 0x6548, 0x006C, 0xFE00 and a zero word after them.  At the top: R0 is
\* brought to 0xFFFE, and no zero word lies between there and the end of
\* the array.
StringImages ==
    { LoadProgram(<<EncPC9(OP_LEA, 0, 2), EncTRAP(t), EncTRAP(TRAP_HALT),
                    25928, 108, 65024, 0>>) : t \in {TRAP_PUTS, TRAP_PUTSP} }
    \cup
    { LoadWords(LoadProgram(<<EncNOT(0, 0), EncRRI(OP_ADD, 0, 0, -1), EncTRAP(t)>>),
                UINT16_MAX - 1, <<TopWord>>) : t \in {TRAP_PUTS, TRAP_PUTSP} }

\* Longer runs followed beside the two-instruction images, each with the
\* number of cycles it is followed for.
LongImages ==
    { [memory |-> LoadProgram(ws), cap |-> 4] : ws \in CallPrograms }
    \cup { [memory |-> m, cap |-> 3] : m \in LowImages \cup StringImages }
    \cup { [memory |-> m, cap |-> 4] : m \in HighImages \cup {TopFetchImage} }

\* The state on entry to the loop of main(): images loaded, console in raw
\* mode, the program counter at PC_START, every other register still 0.
Init ==
    /\ \/ /\ \E a \in InstrsAt(0), b \in InstrsAt(1) : memory = LoadImage(a, b)
          /\ cap = MaxSteps
       \/ \E im \in LongImages : memory = im.memory /\ cap = im.cap
    /\ registers = [i \in 0..(R_COUNT - 1) |-> IF i = R_PC THEN PC_START ELSE 0]
    /\ running = TRUE
    /\ instr = 0
    /\ kbd = <<>>
    /\ out = <<>>
    /\ mode = "raw"
    /\ at = "loop"
    /\ oob = FALSE
    /\ reads = <<>>
    /\ steps = 0
    /\ fn = NoCall
    /\ ld = Loaded
    /\ link = NoLink

(***************************************************************************)
(* The fetch and the handlers.  A handler takes the machine as the fetch   *)
(* left it (a record f: the fetched word, the register file with the       *)
(* program counter already incremented, memory, pending keys, output ...)  *)
(* and yields the set of machines it can leave.                            *)
(***************************************************************************)
CanStep == at = "loop" /\ running /\ steps < cap

\* Mutation of Fetch: the program counter is left on the instruction.
FetchKeepsPC ==
    { [instr |-> r.val, val |-> r.val,
       registers |-> registers,
       memory |-> r.memory, kbd |-> r.kbd, oob |-> r.oob,
       reads |-> <<ReadLog(registers[R_PC], r)>>,
       out |-> out, running |-> running, at |-> at]
      : r \in mem_read(memory, kbd, registers[R_PC]) }

\* uint16_t instr = mem_read(registers[R_PC]++);
Fetch ==
    { [instr |-> r.val, val |-> r.val,
       registers |-> [registers EXCEPT ![R_PC] = U16(@ + 1)],
       memory |-> r.memory, kbd |-> r.kbd, oob |-> r.oob,
       reads |-> <<ReadLog(registers[R_PC], r)>>,
       out |-> out, running |-> running, at |-> at]
      : r \in mem_read(memory, kbd, registers[R_PC]) }

\* uint16_t op = instr >> 12;
OpOf(i) == Shr(i, 12)

\* A mem_read / mem_write made by a handler.
Read(f, addr) ==
    { [f EXCEPT !.val = r.val, !.memory = r.memory, !.kbd = r.kbd,
                !.oob = @ \/ r.oob, !.reads = Append(@, ReadLog(addr, r))]
      : r \in mem_read(f.memory, f.kbd, addr) }

Write(f, addr, val) ==
    { [f EXCEPT !.memory = w.memory, !.registers = w.registers, !.oob = @ \/ w.oob]
      : w \in mem_write(f.memory, f.registers, addr, val) }

\* registers[r0] = v; updateFlgs(r0);
SetDR(f, r0, v) == [f EXCEPT !.registers = updateFlgs([@ EXCEPT ![r0] = v], r0)]

\* Mutation of OpADD: the immediate is used as an unsigned 5-bit field.
OpADDUnsignedImm(f) ==
    LET i == f.instr
        r0 == BitAnd(Shr(i, 9), 7)
        r1 == BitAnd(Shr(i, 6), 7)
        imm_flag == BitAnd(Shr(i, 5), 1)
    IN  IF imm_flag = 1
        THEN {SetDR(f, r0, U16(f.registers[r1] + BitAnd(i, 31)))}
        ELSE {SetDR(f, r0, U16(f.registers[r1] + f.registers[BitAnd(i, 7)]))}

OpADD(f) ==
    LET i == f.instr
        r0 == BitAnd(Shr(i, 9), 7)
        r1 == BitAnd(Shr(i, 6), 7)
        imm_flag == BitAnd(Shr(i, 5), 1)
    IN  IF imm_flag = 1
        THEN LET imm5 == signExtend(BitAnd(i, 31), 5)
             IN  {SetDR(f, r0, U16(f.registers[r1] + imm5))}
        ELSE LET r2 == BitAnd(i, 7)
             IN  {SetDR(f, r0, U16(f.registers[r1] + f.registers[r2]))}

OpAND(f) ==
    LET i == f.instr
        r0 == BitAnd(Shr(i, 9), 7)
        r1 == BitAnd(Shr(i, 6), 7)
        imm_flag == BitAnd(Shr(i, 5), 1)
    IN  IF imm_flag = 1
        THEN LET imm5 == signExtend(BitAnd(i, 31), 5)
             IN  {SetDR(f, r0, BitAnd(f.registers[r1], imm5))}
        ELSE LET r2 == BitAnd(i, 7)
             IN  {SetDR(f, r0, BitAnd(f.registers[r1], f.registers[r2]))}

OpNOT(f) ==
    LET i == f.instr
        r0 == BitAnd(Shr(i, 9), 7)
        r1 == BitAnd(Shr(i, 6), 7)
    IN  {SetDR(f, r0, BitNot16(f.registers[r1]))}

\* Mutation of OpBR: the branch is taken when the condition field equals the
\* flags, not when they share a bit.
OpBRExactMatch(f) ==
    LET i == f.instr
        pcOffset == signExtend(BitAnd(i, 511), 9)
        condFlag == BitAnd(Shr(i, 9), 7)
    IN  IF condFlag = f.registers[R_COND]
        THEN {[f EXCEPT !.registers[R_PC] = U16(@ + pcOffset)]}
        ELSE {f}

OpBR(f) ==
    LET i == f.instr
        pcOffset == signExtend(BitAnd(i, 511), 9)
        condFlag == BitAnd(Shr(i, 9), 7)
    IN  IF BitAnd(condFlag, f.registers[R_COND]) # 0
        THEN {[f EXCEPT !.registers[R_PC] = U16(@ + pcOffset)]}
        ELSE {f}

\* Mutation of OpJMP: the register is added to the program counter.
OpJMPAdds(f) ==
    LET r1 == BitAnd(Shr(f.instr, 6), 7)
    IN  {[f EXCEPT !.registers[R_PC] = U16(@ + f.registers[r1])]}

OpJMP(f) ==
    LET r1 == BitAnd(Shr(f.instr, 6), 7)
    IN  {[f EXCEPT !.registers[R_PC] = f.registers[r1]]}

\* Mutation of OpJSR: the link register is written only in the offset mode.
OpJSRLinkLongOnly(f) ==
    LET i == f.instr
        longFlag == BitAnd(Shr(i, 11), 1)
        linked == [f.registers EXCEPT ![R_R7] = f.registers[R_PC]]
    IN  IF longFlag = 1
        THEN {[f EXCEPT !.registers =
                 [linked EXCEPT ![R_PC] = U16(@ + signExtend(BitAnd(i, 2047), 11))]]}
        ELSE {[f EXCEPT !.registers[R_PC] = U16(@ + f.registers[BitAnd(Shr(i, 6), 7)])]}

OpJSR(f) ==
    LET i == f.instr
        longFlag == BitAnd(Shr(i, 11), 1)
        linked == [f.registers EXCEPT ![R_R7] = f.registers[R_PC]]
    IN  IF longFlag = 1
        THEN LET longPcOffset == signExtend(BitAnd(i, 2047), 11)
             IN  {[f EXCEPT !.registers = [linked EXCEPT ![R_PC] = U16(@ + longPcOffset)]]}
        ELSE LET r1 == BitAnd(Shr(i, 6), 7)
             IN  {[f EXCEPT !.registers = [linked EXCEPT ![R_PC] = U16(@ + linked[r1])]]}

OpLD(f) ==
    LET i == f.instr
        r0 == BitAnd(Shr(i, 9), 7)
        pcOffset == signExtend(BitAnd(i, 511), 9)
    IN  { SetDR(g, r0, g.val) : g \in Read(f, U16(f.registers[R_PC] + pcOffset)) }

\* Mutation of OpLDI: a single indirection, the pointer itself is loaded.
OpLDISingle(f) ==
    LET i == f.instr
        r0 == BitAnd(Shr(i, 9), 7)
        pcOffset == signExtend(BitAnd(i, 511), 9)
    IN  { SetDR(g, r0, g.val) : g \in Read(f, U16(f.registers[R_PC] + pcOffset)) }

OpLDI(f) ==
    LET i == f.instr
        r0 == BitAnd(Shr(i, 9), 7)
        pcOffset == signExtend(BitAnd(i, 511), 9)
    IN  UNION { { SetDR(h, r0, h.val) : h \in Read(g, g.val) }
                : g \in Read(f, U16(f.registers[R_PC] + pcOffset)) }

OpLDR(f) ==
    LET i == f.instr
        r0 == BitAnd(Shr(i, 9), 7)
        r1 == BitAnd(Shr(i, 6), 7)
        offset == signExtend(BitAnd(i, 63), 6)
    IN  { SetDR(g, r0, g.val) : g \in Read(f, U16(f.registers[r1] + offset)) }

\* Mutation of OpLEA: the offset is added to the address of the instruction,
\* not to the incremented program counter.
OpLEAFromInstr(f) ==
    LET i == f.instr
        r0 == BitAnd(Shr(i, 9), 7)
        pcOffset == signExtend(BitAnd(i, 511), 9)
    IN  {SetDR(f, r0, U16(f.registers[R_PC] + Word - 1 + pcOffset))}

OpLEA(f) ==
    LET i == f.instr
        r0 == BitAnd(Shr(i, 9), 7)
        pcOffset == signExtend(BitAnd(i, 511), 9)
    IN  {SetDR(f, r0, U16(f.registers[R_PC] + pcOffset))}

\* Mutation of OpST: the flags are set from the register stored.
OpSTSetsFlags(f) ==
    LET i == f.instr
        r0 == BitAnd(Shr(i, 9), 7)
        pcOffset == signExtend(BitAnd(i, 511), 9)
    IN  Write([f EXCEPT !.registers = updateFlgs(@, r0)],
              U16(f.registers[R_PC] + pcOffset), f.registers[r0])

OpST(f) ==
    LET i == f.instr
        r0 == BitAnd(Shr(i, 9), 7)
        pcOffset == signExtend(BitAnd(i, 511), 9)
    IN  Write(f, U16(f.registers[R_PC] + pcOffset), f.registers[r0])

\* The source register field r0 is decoded but registers[0] is what is stored.
OpSTI(f) ==
    LET i == f.instr
        r0 == BitAnd(Shr(i, 9), 7)
        pcOffset == signExtend(BitAnd(i, 511), 9)
    IN  UNION { Write(g, g.val, g.registers[0])
                : g \in Read(f, U16(f.registers[R_PC] + pcOffset)) }

\* Mutation of OpSTR: the offset is left out of the address.
OpSTRNoOffset(f) ==
    LET i == f.instr
        r0 == BitAnd(Shr(i, 9), 7)
        r1 == BitAnd(Shr(i, 6), 7)
    IN  Write(f, f.registers[r1], f.registers[r0])

OpSTR(f) ==
    LET i == f.instr
        r0 == BitAnd(Shr(i, 9), 7)
        r1 == BitAnd(Shr(i, 6), 7)
        offset == signExtend(BitAnd(i, 63), 6)
    IN  Write(f, U16(f.registers[r1] + offset), f.registers[r0])

(***************************************************************************)
(* Trap routines                                                           *)
(***************************************************************************)
\* putc((char)w, stdout) writes the low byte of w.
PutcByte(w) == w % 256

\* (uint16_t)c for a `char c` holding the byte b: char is signed on the
\* Windows targets this file builds for, so bytes above 0x7F sign-extend.
CharToU16(b) == IF b >= 128 THEN U16(b - 256 + Word) ELSE b

\* The bytes of puts("Done!"): the text and a newline.
HaltMessage == <<68, 111, 110, 101, 33, 10>>

\* TRAP_PUTS: `uint16_t* c = memory + registers[R_R0]; while (*c) ...`.
\* chars: the bytes written while c stays in the array; end: where it stopped.
RECURSIVE PutsScan(_, _)
PutsScan(m, a) ==
    IF ~InArray(a) \/ Cell(m, a) = 0
    THEN [chars |-> <<>>, end |-> a]
    ELSE LET rest == PutsScan(m, a + 1)
         IN  [chars |-> <<PutcByte(Cell(m, a))>> \o rest.chars, end |-> rest.end]

\* Mutation of PutspBytes: both bytes are written whatever the high byte is.
PutspBytesBoth(w) == <<PutcByte(w), PutcByte(Shr(w, 8))>>

\* TRAP_PUTSP: the low byte always, the high byte when it is not 0.
PutspBytes(w) ==
    <<PutcByte(w)>> \o (IF Shr(w, 8) # 0 THEN <<PutcByte(Shr(w, 8))>> ELSE <<>>)

RECURSIVE PutspScan(_, _)
PutspScan(m, a) ==
    IF ~InArray(a) \/ Cell(m, a) = 0
    THEN [chars |-> <<>>, end |-> a]
    ELSE LET rest == PutspScan(m, a + 1)
         IN  [chars |-> PutspBytes(Cell(m, a)) \o rest.chars, end |-> rest.end]

\* The machines a string trap leaves after the scan `sc`.  A scan that ends
\* in the array stopped at a zero word.  One that reaches memory[65535] reads
\* past the array: the word found there either ends the output or adds to it.
AfterScan(f, sc, packed) ==
    IF InArray(sc.end)
    THEN {[f EXCEPT !.out = @ \o sc.chars]}
    ELSE { [f EXCEPT !.out = @ \o sc.chars \o
                              (IF v = 0 THEN <<>>
                               ELSE IF packed THEN PutspBytes(v)
                               ELSE <<PutcByte(v)>>),
                     !.oob = TRUE] : v \in OobVals }

\* case TRAP_GETC: registers[R_R0] = (uint16_t)getchar();  getchar() waits
\* for a key: with none pending the routine has no outcome yet.  Standard
\* input is the console, which never reports end of file.
TrapGETC(f) ==
    IF f.kbd = <<>> THEN {}
    ELSE {[f EXCEPT !.registers[R_R0] = U16(Head(f.kbd)), !.kbd = Tail(@)]}

\* Mutation of TrapOUT: the high byte of R0 is written.
TrapOUTHighByte(f) == {[f EXCEPT !.out = Append(@, Shr(f.registers[R_R0], 8))]}

\* case TRAP_OUT: putc((char)registers[R_R0], stdout); fflush(stdout);
TrapOUT(f) == {[f EXCEPT !.out = Append(@, PutcByte(f.registers[R_R0]))]}

\* Mutation of TrapPUTS: R0 itself walks the string and is left at its end.
TrapPUTSAdvancesR0(f) ==
    LET sc == PutsScan(f.memory, f.registers[R_R0])
    IN  {[f EXCEPT !.out = @ \o sc.chars, !.registers[R_R0] = U16(sc.end)]}

\* case TRAP_PUTS: one char per word from memory + registers[R_R0].
TrapPUTS(f) == AfterScan(f, PutsScan(f.memory, f.registers[R_R0]), FALSE)

\* case TRAP_IN: printf(" "); char c = getchar(); putc(c, stdout);
\* registers[R_R0] = (uint16_t)c;
TrapIN(f) ==
    IF f.kbd = <<>> THEN {}
    ELSE LET c == Head(f.kbd)
         IN  {[f EXCEPT !.out = @ \o <<32, c>>,
                        !.registers[R_R0] = CharToU16(c),
                        !.kbd = Tail(@)]}

\* case TRAP_PUTSP: two chars per word from memory + registers[R_R0].
TrapPUTSP(f) == AfterScan(f, PutspScan(f.memory, f.registers[R_R0]), TRUE)

\* Mutation of TrapHALT: the loop flag is cleared and nothing is written.
TrapHALTSilent(f) == {[f EXCEPT !.running = FALSE]}

\* case TRAP_HALT: puts("Done!"); fflush(stdout); running = 0;
TrapHALT(f) == {[f EXCEPT !.out = @ \o HaltMessage, !.running = FALSE]}

\* switch (instr & 0xFF): the six vectors; any other value matches no case
\* and the switch is left with nothing done.
OpTRAP(f) ==
    LET vect == BitAnd(f.instr, 255) IN
    CASE vect = TRAP_GETC  -> TrapGETC(f)
      [] vect = TRAP_OUT   -> TrapOUT(f)
      [] vect = TRAP_PUTS  -> TrapPUTS(f)
      [] vect = TRAP_IN    -> TrapIN(f)
      [] vect = TRAP_PUTSP -> TrapPUTSP(f)
      [] vect = TRAP_HALT  -> TrapHALT(f)
      [] OTHER -> {f}

\* Mutation of OpAbort: the reserved opcode is skipped and the loop goes on.
OpAbortSkip(f) == {f}

\* case OP_RES / case OP_RTI: abort();
OpAbort(f) == {[f EXCEPT !.at = "aborted"]}

(***************************************************************************)
(* Actions: one cycle of the loop per opcode, and the steps around it      *)
(***************************************************************************)
Commit(s) ==
    /\ instr' = s.instr
    /\ registers' = s.registers
    /\ memory' = s.memory
    /\ kbd' = s.kbd
    /\ out' = s.out
    /\ running' = s.running
    /\ at' = s.at
    /\ oob' = (oob \/ s.oob)
    /\ reads' = s.reads
    /\ steps' = steps + 1
    /\ link' = IF OpOf(s.instr) = OP_JSR /\ BitAnd(Shr(s.instr, 11), 1) = 1
               THEN [ret |-> U16(registers[R_PC] + 1), kept |-> TRUE]
               ELSE [link EXCEPT !.kept = @ /\ s.registers[R_R7] = registers[R_R7]]
    /\ UNCHANGED <<mode, fn, cap, ld>>

ExecADD ==
    /\ CanStep
    /\ \E f \in Fetch :
         /\ OpOf(f.instr) = OP_ADD
         /\ \E s \in OpADD(f) : Commit(s)
ExecAND ==
    /\ CanStep
    /\ \E f \in Fetch :
         /\ OpOf(f.instr) = OP_AND
         /\ \E s \in OpAND(f) : Commit(s)
ExecNOT ==
    /\ CanStep
    /\ \E f \in Fetch :
         /\ OpOf(f.instr) = OP_NOT
         /\ \E s \in OpNOT(f) : Commit(s)
ExecBR ==
    /\ CanStep
    /\ \E f \in Fetch :
         /\ OpOf(f.instr) = OP_BR
         /\ \E s \in OpBR(f) : Commit(s)
ExecJMP ==
    /\ CanStep
    /\ \E f \in Fetch :
         /\ OpOf(f.instr) = OP_JMP
         /\ \E s \in OpJMP(f) : Commit(s)
ExecJSR ==
    /\ CanStep
    /\ \E f \in Fetch :
         /\ OpOf(f.instr) = OP_JSR
         /\ \E s \in OpJSR(f) : Commit(s)
ExecLD ==
    /\ CanStep
    /\ \E f \in Fetch :
         /\ OpOf(f.instr) = OP_LD
         /\ \E s \in OpLD(f) : Commit(s)
ExecLDI ==
    /\ CanStep
    /\ \E f \in Fetch :
         /\ OpOf(f.instr) = OP_LDI
         /\ \E s \in OpLDI(f) : Commit(s)
ExecLDR ==
    /\ CanStep
    /\ \E f \in Fetch :
         /\ OpOf(f.instr) = OP_LDR
         /\ \E s \in OpLDR(f) : Commit(s)
ExecLEA ==
    /\ CanStep
    /\ \E f \in Fetch :
         /\ OpOf(f.instr) = OP_LEA
         /\ \E s \in OpLEA(f) : Commit(s)
ExecST ==
    /\ CanStep
    /\ \E f \in Fetch :
         /\ OpOf(f.instr) = OP_ST
         /\ \E s \in OpST(f) : Commit(s)
ExecSTI ==
    /\ CanStep
    /\ \E f \in Fetch :
         /\ OpOf(f.instr) = OP_STI
         /\ \E s \in OpSTI(f) : Commit(s)
ExecSTR ==
    /\ CanStep
    /\ \E f \in Fetch :
         /\ OpOf(f.instr) = OP_STR
         /\ \E s \in OpSTR(f) : Commit(s)
ExecTRAP ==
    /\ CanStep
    /\ \E f \in Fetch :
         /\ OpOf(f.instr) = OP_TRAP
         /\ \E s \in OpTRAP(f) : Commit(s)
ExecRES ==
    /\ CanStep
    /\ \E f \in Fetch :
         /\ OpOf(f.instr) = OP_RES
         /\ \E s \in OpAbort(f) : Commit(s)
ExecRTI ==
    /\ CanStep
    /\ \E f \in Fetch :
         /\ OpOf(f.instr) = OP_RTI
         /\ \E s \in OpAbort(f) : Commit(s)

\* The loop ends once `running` is 0: restore_input_buffering(); return 0.
Exit ==
    /\ at = "loop" /\ ~running
    /\ mode' = "cooked"
    /\ at' = "exited"
    /\ UNCHANGED <<memory, registers, running, instr, kbd, out, oob, reads, steps, fn, cap, ld, link>>

\* handle_interrupt: SIGINT while the process is alive.
Interrupt ==
    /\ at = "loop"
    /\ mode' = "cooked"
    /\ out' = Append(out, 10)
    /\ at' = "interrupted"
    /\ UNCHANGED <<memory, registers, running, instr, kbd, oob, reads, steps, fn, cap, ld, link>>

\* The user presses a key.
KeyPress ==
    /\ at = "loop" /\ Len(kbd) < MaxKeys
    /\ \E c \in Keys : kbd' = Append(kbd, c)
    /\ UNCHANGED <<memory, registers, running, instr, out, mode, at, oob, reads, steps, fn, cap, ld, link>>

Next ==
    \/ ExecADD \/ ExecAND \/ ExecNOT \/ ExecBR \/ ExecJMP \/ ExecJSR
    \/ ExecLD \/ ExecLDI \/ ExecLDR \/ ExecLEA \/ ExecST \/ ExecSTI \/ ExecSTR
    \/ ExecTRAP \/ ExecRES \/ ExecRTI
    \/ Exit \/ Interrupt \/ KeyPress

Spec == Init /\ [][Next]_vars

(***************************************************************************)
(* signExtend called directly on every field the decoder can hand it       *)
(***************************************************************************)
\* The field widths main() passes: imm5, offset6, PCoffset9, PCoffset11.
Widths == {5, 6, 9, 11}

InitSE ==
    /\ memory = Data
    /\ registers = [i \in 0..(R_COUNT - 1) |-> IF i = R_PC THEN PC_START ELSE 0]
    /\ running = TRUE
    /\ instr = 0
    /\ kbd = <<>>
    /\ out = <<>>
    /\ mode = "raw"
    /\ at = "loop"
    /\ oob = FALSE
    /\ reads = <<>>
    /\ steps = 0
    /\ fn = NoCall
    /\ cap = MaxSteps
    /\ ld = Loaded
    /\ link = NoLink

CallSignExtend ==
    /\ \E w \in Widths : \E x \in 0..(Pow2(w) - 1) :
         fn' = [x |-> x, bitCount |-> w, result |-> signExtend(x, w)]
    /\ UNCHANGED <<memory, registers, running, instr, kbd, out, mode, at, oob, reads, steps, cap, ld, link>>

NextSE == CallSignExtend

SpecSE == InitSE /\ [][NextSE]_vars

(***************************************************************************)
(* A whole program run to its end: 'A' is built in R0, written, then HALT  *)
(***************************************************************************)
\* Sum of the entries of a sequence of numbers.
RECURSIVE SumSeq(_)
SumSeq(s) == IF s = <<>> THEN 0 ELSE Head(s) + SumSeq(Tail(s))

\* Five ADD R0, R0, #imm5 whose immediates add up to 'A' = 65, then
\* TRAP x21 and TRAP x25.
PrintAPrograms ==
    { [n \in 1..5 |-> EncRRI(OP_ADD, 0, 0, imms[n])]
          \o <<EncTRAP(TRAP_OUT), EncTRAP(TRAP_HALT)>>
      : imms \in {s \in [1..5 -> {5, 13, 15}] : SumSeq(s) = 65} }

InitPrintA ==
    /\ \E ws \in PrintAPrograms : memory = LoadProgram(ws) /\ cap = Len(ws)
    /\ registers = [i \in 0..(R_COUNT - 1) |-> IF i = R_PC THEN PC_START ELSE 0]
    /\ running = TRUE
    /\ instr = 0
    /\ kbd = <<>>
    /\ out = <<>>
    /\ mode = "raw"
    /\ at = "loop"
    /\ oob = FALSE
    /\ reads = <<>>
    /\ steps = 0
    /\ fn = NoCall
    /\ ld = Loaded
    /\ link = NoLink

NextPrintA == ExecADD \/ ExecTRAP \/ Exit \/ Interrupt \/ KeyPress

\* The loop runs on its own: a cycle that can be taken is taken, and main()
\* returns once the loop is over.  Nothing makes the interrupt happen.
SpecPrintA ==
    /\ InitPrintA
    /\ [][NextPrintA]_vars
    /\ WF_vars(ExecADD \/ ExecTRAP)
    /\ WF_vars(Exit)

(***************************************************************************)
(* main() before the loop: the argument check and the image loader         *)
(***************************************************************************)
\* Mutation of swap16: the word is left in the order fread stored it.
swap16NoSwap(x) == x

\* swap16(x): (x << 8) | (x >> 8), truncated to uint16_t.
swap16(x) == BitOr(U16(Shl(x, 8)), Shr(x, 8))

\* The files on disk, as bytes.  An image is big-endian: origin, then words.
\*   a.obj    origin 0x3000: TRAP x25
\*   b.obj    origin 0x2FFF: 0x0048, 0x1234 (the second lands on 0x3000)
\*   top.obj  origin 0xFFFE: 1, 2, 3 (only the first fits below 0xFFFF)
\*   odd.obj  origin 0x3001: 0x0007, then one stray byte
\* none.obj does not exist.
Disk ==
    ("a.obj" :> <<48, 0, 240, 37>>) @@
    ("b.obj" :> <<47, 255, 0, 72, 18, 52>>) @@
    ("top.obj" :> <<255, 254, 0, 1, 0, 2, 0, 3>>) @@
    ("odd.obj" :> <<48, 1, 0, 7, 9>>)

Paths == DOMAIN Disk \cup {"none.obj"}

\* Longest argument list tried.
MaxArgs == 3

\* fread(..., sizeof(uint16_t), n, f) on the little-endian host: each pair
\* of bytes becomes one word, low byte first; a trailing odd byte is no item.
FreadWords(bytes) ==
    [n \in 1..(Len(bytes) \div 2) |-> bytes[2 * n - 1] + 256 * bytes[2 * n]]

\* while (read-- > 0) { *p = swap16(*p); ++p; } over the words fread stored
\* at p = memory + a.
RECURSIVE StoreSwapped(_, _, _)
StoreSwapped(m, a, ws) ==
    IF ws = <<>> THEN m
    ELSE StoreSwapped(Store(m, a, swap16(Head(ws))), a + 1, Tail(ws))

\* readImageFile(f) for a file holding `bytes`, on memory m.  A file with no
\* origin word stores nothing.
readImageFile(m, bytes) ==
    LET w == FreadWords(bytes) IN
    IF w = <<>> THEN m
    ELSE LET origin == swap16(w[1])
             maxRead == U16(UINT16_MAX - origin)
             avail == Len(w) - 1
             read == IF avail < maxRead THEN avail ELSE maxRead
         IN  StoreSwapped(m, origin, SubSeq(w, 2, read + 1))

\* readImage(imagePath): 0 when fopen fails, else the image is read.
readImage(m, imagePath) ==
    IF imagePath \in DOMAIN Disk
    THEN [ok |-> TRUE, memory |-> readImageFile(m, Disk[imagePath])]
    ELSE [ok |-> FALSE, memory |-> m]

\* The process at the top of main(): argv[1..] is any list of paths.
InitLoad ==
    /\ \E n \in 0..MaxArgs : \E argv \in [1..n -> Paths] :
         ld = [argv |-> argv, j |-> 1, tried |-> <<>>, reported |-> <<>>]
    /\ memory = <<>>
    /\ registers = [i \in 0..(R_COUNT - 1) |-> 0]
    /\ running = FALSE
    /\ instr = 0
    /\ kbd = <<>>
    /\ out = <<>>
    /\ mode = "cooked"
    /\ at = "loading"
    /\ oob = FALSE
    /\ reads = <<>>
    /\ steps = 0
    /\ fn = NoCall
    /\ cap = 0
    /\ link = NoLink

\* if (argc < 2) { printf(usage); exit(2); }
Usage ==
    /\ at = "loading" /\ Len(ld.argv) + 1 < 2
    /\ at' = "usage"
    /\ UNCHANGED <<memory, registers, running, instr, kbd, out, mode, oob, reads,
                   steps, fn, cap, ld, link>>

\* One turn of the for loop in which readImage(argv[j]) succeeds.
LoadArg ==
    /\ at = "loading" /\ ld.j <= Len(ld.argv)
    /\ LET r == readImage(memory, ld.argv[ld.j]) IN
         /\ r.ok
         /\ memory' = r.memory
         /\ ld' = [ld EXCEPT !.j = @ + 1, !.tried = Append(@, ld.argv[ld.j])]
    /\ UNCHANGED <<registers, running, instr, kbd, out, mode, at, oob, reads,
                   steps, fn, cap, link>>

\* One turn in which it fails: printf("Failed to load image: %s\n"); exit(1);
LoadFail ==
    /\ at = "loading" /\ ld.j <= Len(ld.argv)
    /\ LET r == readImage(memory, ld.argv[ld.j]) IN
         /\ ~r.ok
         /\ ld' = [ld EXCEPT !.tried = Append(@, ld.argv[ld.j]),
                             !.reported = Append(@, ld.argv[ld.j])]
    /\ at' = "loadfail"
    /\ UNCHANGED <<memory, registers, running, instr, kbd, out, mode, oob, reads,
                   steps, fn, cap, link>>

\* After the for loop: signal(), disable_input_buffering(),
\* registers[R_PC] = PC_START, int running = 1.
StartLoop ==
    /\ at = "loading" /\ Len(ld.argv) + 1 >= 2 /\ ld.j > Len(ld.argv)
    /\ mode' = "raw"
    /\ registers' = [registers EXCEPT ![R_PC] = PC_START]
    /\ running' = TRUE
    /\ at' = "loop"
    /\ UNCHANGED <<memory, instr, kbd, out, oob, reads, steps, fn, cap, ld, link>>

NextLoad == Usage \/ LoadArg \/ LoadFail \/ StartLoop

SpecLoad == InitLoad /\ [][NextLoad]_vars

(***************************************************************************)
(* Properties                                                              *)
(***************************************************************************)
\* Field decoding used by the properties, by arithmetic on the word.
Bits(i, lo, n) == (i \div Pow2(lo)) % Pow2(n)
Signed(field, n) == IF field < Pow2(n - 1) THEN field ELSE field - Pow2(n)
Wrap(x) == ((x % Word) + Word) % Word

\* The step is one cycle of the loop, which fetched instr'.
CycleStep == steps' = steps + 1
CycleOf(op) == CycleStep /\ Bits(instr', 12, 4) = op

\* The program counter right after the fetch of the cycle being taken.
PCAfterFetch == Wrap(registers[R_PC] + 1)

FlagOf(v) == IF v = 0 THEN FL_ZRO ELSE IF v >= 32768 THEN FL_NEG ELSE FL_POS

FlagOps == {OP_ADD, OP_AND, OP_NOT, OP_LD, OP_LDI, OP_LDR, OP_LEA}

\* C1: after a cycle that executed ADD, AND, NOT, LD, LDI, LDR or LEA the
\* condition flags hold exactly the one flag that describes the value now
\* in the destination register: ZERO for 0, NEGATIVE when bit 15 is set,
\* POSITIVE otherwise.
C1_FlagsMatchDR ==
    (steps > 0 /\ Bits(instr, 12, 4) \in FlagOps)
        => registers[R_COND] = FlagOf(registers[Bits(instr, 9, 3)])

\* A load has just put a word with bit 15 set in its destination register.
C1_Witness ==
    /\ steps > 0
    /\ Bits(instr, 12, 4) = OP_LDI
    /\ registers[Bits(instr, 9, 3)] = 32768
    /\ registers[R_COND] = FL_NEG

\* C2: for every width w in {5, 6, 9, 11} and every field f below 2^w,
\* signExtend(f, w) is f when bit w-1 of f is 0 and f + (2^16 - 2^w) when
\* it is 1, the 16-bit two's complement of f read as a signed w-bit number.
C2_SignExtend ==
    fn.bitCount \in Widths =>
        /\ fn.result = (IF fn.x < Pow2(fn.bitCount - 1)
                        THEN fn.x
                        ELSE fn.x + (Word - Pow2(fn.bitCount)))
        /\ fn.result = Wrap(Signed(fn.x, fn.bitCount))

\* signExtend(0b11111, 5) has been computed, and is 0xFFFF.
C2_Witness == fn = [x |-> 31, bitCount |-> 5, result |-> 65535]

\* What an ADD cycle must do, over the registers before and after it.
C3_AddStep ==
    CycleOf(OP_ADD) =>
        LET i == instr'
            a == registers[Bits(i, 6, 3)]
            b == IF Bits(i, 5, 1) = 1
                 THEN Signed(Bits(i, 0, 5), 5)
                 ELSE registers[Bits(i, 0, 3)]
            dr == registers'[Bits(i, 9, 3)]
        IN  /\ dr = Wrap(a + b)
            /\ at' = "loop" /\ running'
            /\ (a = 32767 /\ b = 1) => (dr = 32768 /\ registers'[R_COND] = FL_NEG)
            /\ (a = 0 /\ b = 0) => (dr = 0 /\ registers'[R_COND] = FL_ZRO)

\* C3: ADD leaves (SR1 + operand2) mod 2^16 in DR, operand2 being the
\* signed 5-bit immediate when bit 5 is 1 and the register at bits 2:0
\* otherwise; the machine keeps running (no overflow trap), 0x7FFF + 1 gives
\* 0x8000 with NEGATIVE, and 0 + 0 gives 0 with ZERO.
C3_Add == [][C3_AddStep]_vars

\* ADD R2, R1, #1 has just run with R1 = 0x7FFF: R2 is 0x8000, flag NEGATIVE.
C3_Witness ==
    /\ instr = EncRRI(OP_ADD, 2, 1, 1)
    /\ registers[1] = 32767
    /\ registers[2] = 32768
    /\ registers[R_COND] = FL_NEG
    /\ at = "loop"

\* The cells written or polled between two states.
Changed(m1, m2) == {a \in (DOMAIN m1) \cup (DOMAIN m2) : Cell(m1, a) # Cell(m2, a)}

\* What an LDI cycle must do; A, B, V as in C4 below.
C4_LdiStep ==
    CycleOf(OP_LDI) =>
        LET i == instr'
            A == Wrap(PCAfterFetch + Signed(Bits(i, 0, 9), 9))
            B == Cell(memory', A)
            V == Cell(memory', B)
        IN  (InArray(A) /\ InArray(B)) =>
                /\ registers'[Bits(i, 9, 3)] = V
                /\ registers'[R_COND] = FlagOf(V)
                /\ (MR_KBSR \notin {registers[R_PC], A, B}) => memory' = memory

\* C4: LDI is a double indirection.  With A = (program counter after the
\* fetch + signed 9-bit offset) mod 2^16, B the word in cell A and V the word
\* in cell B, for A and B cells of the memory array, DR receives V (not B)
\* and the flags describe V.  The words are those the cells hold once the
\* instruction has run; LDI stores nothing, so unless one of the two reads
\* was the keyboard poll they are the words held before it.
C4_Ldi == [][C4_LdiStep]_vars

\* LDI R1 through the pointer cell 0x2FFC has run: R1 holds the word
\* 0x7FFF of cell 0x2FF8, not the pointer 0x2FF8.
C4_Witness ==
    /\ Bits(instr, 12, 4) = OP_LDI
    /\ steps = 1
    /\ Cell(memory, 12284) = 12280
    /\ Cell(memory, 12280) = 32767
    /\ registers[1] = 32767

\* What a JSR cycle must do to R7.
C5_JsrStep ==
    CycleOf(OP_JSR) =>
        LET i == instr'
        IN  /\ registers'[R_R7] = PCAfterFetch
            /\ (Bits(i, 11, 1) = 0 /\ Bits(i, 6, 3) = R_R7) =>
                   Wrap(registers'[R_PC] - PCAfterFetch) = registers'[R_R7]

\* C5: every JSR, in offset mode and in register mode, leaves in R7 the
\* program counter as it was right after the fetch (the address of the JSR
\* plus one, mod 2^16).  R7 is written before the target is computed: with
\* base register R7 the displacement the handler applies to the program
\* counter is the link just written, not the word R7 held before.
C5_JsrLink == [][C5_JsrStep]_vars

\* A register-mode JSR with base R7 has run at 0x3000: R7 holds 0x3001.
C5_Witness ==
    /\ instr = EncJSRR(7)
    /\ steps = 1
    /\ registers[R_R7] = PC_START + 1
    /\ registers[R_PC] = 2 * (PC_START + 1)

\* Where a JSR cycle must leave the program counter.
C6_JsrTargetStep ==
    CycleOf(OP_JSR) =>
        LET i == instr'
        IN  registers'[R_PC] =
                IF Bits(i, 11, 1) = 1
                THEN Wrap(PCAfterFetch + Signed(Bits(i, 0, 11), 11))
                ELSE registers[Bits(i, 6, 3)]

\* C6: the JSR target is (program counter after the fetch + signed 11-bit
\* offset) mod 2^16 when bit 11 is 1, and the value of the register at bits
\* 8:6 when bit 11 is 0.
C6_JsrTarget == [][C6_JsrTargetStep]_vars

\* What an STI cycle must store; A is the pointer cell, T the target.
C7_StiStep ==
    CycleOf(OP_STI) =>
        LET i == instr'
            A == Wrap(PCAfterFetch + Signed(Bits(i, 0, 9), 9))
            T == Cell(memory, A)
        IN  (InArray(A) /\ InArray(T) /\ MR_KBSR \notin {registers[R_PC], A}) =>
                Cell(memory', T) = registers[Bits(i, 9, 3)]

\* C7: STI stores the register named by bits 11:9 at the address read from
\* cell A = (program counter after the fetch + signed 9-bit offset) mod 2^16
\* (stated for A and the address it holds being ordinary cells of the array).
C7_StiSource == [][C7_StiStep]_vars

\* The status reads in a cycle's read log.
StatusReads(log) == {n \in DOMAIN log : log[n].addr = MR_KBSR}

\* What the status and data reads of a cycle must return.
C8_KbdStep ==
    CycleStep =>
        /\ \A n \in StatusReads(reads') :
             IF kbd = <<>>
             THEN /\ reads'[n].val = 0
                  /\ Cell(memory', MR_KBSR) = 0
                  /\ kbd' = kbd
             ELSE /\ reads'[n].val = 32768
                  /\ Bits(reads'[n].val, 15, 1) = 1
                  /\ Cell(memory', MR_KBSR) = reads'[n].val
                  /\ Cell(memory', MR_KBDR) = Head(kbd)
                  /\ kbd' = Tail(kbd)
        /\ \A k \in StatusReads(reads) : \A n \in DOMAIN reads' :
             (reads[k].key >= 0 /\ reads'[n].addr = MR_KBDR)
                 => reads'[n].val = reads[k].key

\* C8: a read of the keyboard status address 0xFE00 polls the keyboard.
\* With no key pending it returns 0 (so do any number of status reads in a
\* row with no key pressed between them).  With a key pending it returns the
\* ready word, bit 15 set, takes the key and stores its code in the data cell
\* 0xFE02; the read of 0xFE02 in the cycle after such a poll returns that code.
C8_Keyboard == [][C8_KbdStep]_vars

\* Two loads in a row: the first read the status with 'A' pending and got
\* the ready word, the second read the data cell and got 'A'.
C8_Witness ==
    /\ steps = 2
    /\ registers[0] = 32768
    /\ instr = EncPC9(OP_LDI, 2, 12282 - (PC_START + 2))
    /\ \E n \in DOMAIN reads : reads[n].addr = MR_KBDR /\ reads[n].val = 65
    /\ registers[2] = 65

\* R0..R7 and the condition flags are the same before and after the step.
SameRegs == \A r \in (0..R_R7) \cup {R_COND} : registers'[r] = registers[r]

\* No instruction is fetched once the process has been aborted.
StaysAborted == (at = "aborted") => UNCHANGED vars

\* A reserved opcode leaves all of memory as it was before the fetch.
C9_OriginalStep ==
    (CycleOf(OP_RTI) \/ CycleOf(OP_RES)) =>
        /\ at' = "aborted"
        /\ SameRegs
        /\ memory' = memory

\* C9 as stated: a cycle that fetches a reserved opcode (RTI = 8, RES = 13)
\* stops the engine with memory, R0-R7 and the flags as they were before the
\* fetch, and nothing is fetched afterwards.
C9_Original == [][C9_OriginalStep /\ StaysAborted]_vars

\* A reserved opcode leaves memory as it was, apart from the keyboard cells.
C9_AmendedStep ==
    (CycleOf(OP_RTI) \/ CycleOf(OP_RES)) =>
        /\ at' = "aborted"
        /\ SameRegs
        /\ Changed(memory, memory') \subseteq {MR_KBSR, MR_KBDR}
        /\ registers[R_PC] # MR_KBSR => memory' = memory

\* C9 as amended: a cycle that fetches a reserved opcode stops the engine
\* and nothing is fetched afterwards; R0-R7 and the flags are as they were
\* before the fetch, and so is every memory cell except the keyboard cells
\* 0xFE00 and 0xFE02, which the fetch itself refreshes when the program
\* counter is 0xFE00 (the handler changes nothing).
C9_ReservedStops == [][C9_AmendedStep /\ StaysAborted]_vars

\* The ready word fetched at 0xFE00 decoded as RTI and aborted the process;
\* the fetch had refreshed the keyboard cells.
C9_Witness ==
    /\ at = "aborted"
    /\ instr = 32768
    /\ registers[R_PC] = MR_KBSR + 1
    /\ Cell(memory, MR_KBDR) \in Keys

\* A TRAP with an unknown vector leaves the loop.
C10_BadTrapStep ==
    (CycleOf(OP_TRAP) /\ Bits(instr', 0, 8) \notin TRAP_GETC..TRAP_HALT) =>
        ~(at' = "loop" /\ running')

\* C10: a TRAP whose low 8 bits are not one of 0x20..0x25 stops the engine;
\* the loop does not go on to the next fetch.
C10_BadTrapStops == [][C10_BadTrapStep]_vars

\* How the loop flag is cleared, and what can still change once it is.
C11_HaltStep ==
    /\ (running /\ ~running') =>
          /\ CycleOf(OP_TRAP)
          /\ Bits(instr', 0, 8) = TRAP_HALT
          /\ out' = out \o HaltMessage
          /\ at = "loop" /\ at' = "loop"
    /\ (at' = "exited" /\ at # "exited") => ~running
    /\ ~running =>
          /\ ~running'
          /\ ~CycleStep
          /\ instr' = instr
          /\ memory' = memory
          /\ registers' = registers

\* C11: the loop flag is cleared only by a cycle that executes TRAP 0x25,
\* and that cycle has written the completion message by the time the flag
\* is clear; main() returns only with the flag clear; and once it is clear
\* no instruction is fetched and memory and the registers stay as they are.
C11_OnlyHaltStops == [][C11_HaltStep]_vars

\* HALT ran as the second instruction and main() has returned: the output
\* ends with the completion message.
C11_Witness ==
    /\ ~running
    /\ at = "exited"
    /\ steps = 2
    /\ instr = EncTRAP(TRAP_HALT)
    /\ Len(out) >= Len(HaltMessage)
    /\ SubSeq(out, Len(out) - Len(HaltMessage) + 1, Len(out)) = HaltMessage

\* C12: every mem_read, mem_write and instruction fetch made so far has
\* indexed a cell of the memory array, whatever the address in 0..65535.
C12_NoAccessOutsideArray == oob = FALSE

\* C13: on entry to the loop and in every state after it the condition
\* flags register holds exactly one of FL_POS, FL_ZRO, FL_NEG.
C13_OneFlagAlways == registers[R_COND] \in {FL_POS, FL_ZRO, FL_NEG}

\* The output the program must produce: "A", then the completion message.
PrintAOutput == <<65>> \o HaltMessage

IsPrefix(s, t) == Len(s) <= Len(t) /\ s = SubSeq(t, 1, Len(s))

\* C14: a run of an image at 0x3000 that builds 'A' in R0 with ADD
\* immediates, then executes TRAP 0x21 and TRAP 0x25: while it runs the
\* output is a prefix of "A" followed by the completion message, the process
\* is never aborted, and unless it is interrupted from outside it reaches
\* the end of main() with the loop flag clear and exactly that output.
C14_PrintA ==
    /\ [](at = "loop" => IsPrefix(out, PrintAOutput))
    /\ [](at # "aborted")
    /\ [](at = "exited" => (~running /\ out = PrintAOutput))
    /\ []((at = "loop" /\ ~running) => out = PrintAOutput)
    /\ <>(at = "interrupted" \/ (at = "exited" /\ ~running /\ out = PrintAOutput))

\* The program has run to the end of main(): seven cycles, 'A' in R0, and
\* the output is "A" and the completion message.
C14_Witness ==
    /\ at = "exited"
    /\ steps = 7
    /\ registers[R_R0] = 65
    /\ Cell(memory, PC_START) = EncRRI(OP_ADD, 0, 0, 5)
    /\ out = <<65, 68, 111, 110, 101, 33, 10>>

\* What a cycle that executes one of the six trap routines leaves alone.
C15_TrapStep ==
    (CycleOf(OP_TRAP) /\ Bits(instr', 0, 8) \in TRAP_GETC..TRAP_HALT) =>
        /\ registers'[R_PC] = PCAfterFetch
        /\ \A r \in (1..R_R7) \cup {R_COND} : registers'[r] = registers[r]
        /\ memory' = memory
        /\ registers'[R_R0] # registers[R_R0] =>
               Bits(instr', 0, 8) \in {TRAP_GETC, TRAP_IN}

\* C15: a cycle that executes TRAP with a vector in 0x20..0x25 leaves the
\* program counter at the address of the TRAP plus one (mod 2^16), leaves
\* R1-R7 (R7 included: no link is saved), the condition flags and memory as
\* they were, and changes R0 only if the vector is GETC or IN.
C15_TrapFrame == [][C15_TrapStep]_vars

\* TRAP IN has run as the second instruction with the key 0xE9 pending:
\* R0 holds the sign-extended char, the program counter is 0x3002.
C15_Witness ==
    /\ steps = 2
    /\ instr = EncTRAP(TRAP_IN)
    /\ registers[R_R0] = 65513
    /\ registers[R_PC] = PC_START + 2
    /\ registers[R_R7] = 0

\* C16: when the process has ended because an image failed to load, the
\* failure was reported for that file and every path on the command line
\* had been handed to the loader.
C16_AllPathsAttempted ==
    at = "loadfail" =>
        /\ ld.reported # <<>>
        /\ \A n \in DOMAIN ld.reported : ld.reported[n] \notin DOMAIN Disk
        /\ ld.tried = ld.argv

\* C17: whenever the process has ended after the loop was entered (by the
\* return from main() after HALT, by abort() on a reserved opcode, or by the
\* interrupt handler) the console is back in the mode it had before
\* disable_input_buffering().
C17_ModeRestored ==
    at \in {"exited", "aborted", "interrupted"} => mode = "cooked"

\* Which cycles may branch, and where to.
C18_BrStep ==
    CycleOf(OP_BR) =>
        LET i == instr'
            n == Bits(i, 11, 1) = 1 /\ Bits(registers[R_COND], 2, 1) = 1
            z == Bits(i, 10, 1) = 1 /\ Bits(registers[R_COND], 1, 1) = 1
            p == Bits(i, 9, 1) = 1 /\ Bits(registers[R_COND], 0, 1) = 1
        IN  /\ registers'[R_PC] =
                 IF n \/ z \/ p
                 THEN Wrap(PCAfterFetch + Signed(Bits(i, 0, 9), 9))
                 ELSE PCAfterFetch
            /\ Bits(i, 9, 3) = 0 => registers'[R_PC] = PCAfterFetch

\* C18: a BR cycle leaves the program counter at (program counter after the
\* fetch + signed 9-bit offset) mod 2^16 exactly when some bit is set in both
\* the condition field (bits 11:9) and the condition flags, and at the fetch
\* address plus one otherwise; with condition field 0 it never branches.
C18_Branch == [][C18_BrStep]_vars

\* ADD R0, R0, #-1 set NEGATIVE and BRn -2 at 0x3001 branched back to 0x3000.
C18_Witness ==
    /\ steps = 2
    /\ instr = EncPC9(OP_BR, 4, -2)
    /\ registers[R_COND] = FL_NEG
    /\ registers[R_PC] = PC_START

\* The opcodes whose handlers write no general-purpose register result.
NoFlagOps == {OP_BR, OP_JMP, OP_JSR, OP_ST, OP_STI, OP_STR, OP_TRAP}

\* Which cycles may change the condition flags.
C19_FlagStep ==
    /\ (CycleStep /\ Bits(instr', 12, 4) \in NoFlagOps) =>
           registers'[R_COND] = registers[R_COND]
    /\ registers'[R_COND] # registers[R_COND] =>
           (CycleStep /\ Bits(instr', 12, 4) \in FlagOps)

\* C19: a cycle that executes BR, JMP, JSR, ST, STI, STR or TRAP leaves the
\* condition flags as they were; the flags change only in a cycle that
\* executes ADD, AND, NOT, LD, LDI, LDR or LEA.
C19_FlagsFrame == [][C19_FlagStep]_vars

\* LD R1 loaded 0x7FFF and set POSITIVE; ST R1 then stored it at 0x2FFF and
\* the flags are still POSITIVE.
C19_Witness ==
    /\ steps = 2
    /\ Bits(instr, 12, 4) = OP_ST
    /\ Cell(memory, PC_START - 1) = 32767
    /\ registers[R_COND] = FL_POS

\* The cells a cycle may change: the target of its store, and the keyboard
\* cells when the cycle read the status address.
C20_MemStep ==
    LET i == instr'
        op == Bits(i, 12, 4)
        target ==
            IF op = OP_ST THEN {Wrap(PCAfterFetch + Signed(Bits(i, 0, 9), 9))}
            ELSE IF op = OP_STR
            THEN {Wrap(registers[Bits(i, 6, 3)] + Signed(Bits(i, 0, 6), 6))}
            ELSE IF op = OP_STI /\ Len(reads') >= 2 THEN {reads'[2].val}
            ELSE {}
        polled == IF StatusReads(reads') # {} THEN {MR_KBSR, MR_KBDR} ELSE {}
    IN  /\ CycleStep => Changed(memory, memory') \subseteq (target \cup polled)
        /\ ~CycleStep => memory' = memory

\* C20: in a cycle a memory cell changes only if it is the target address
\* of the ST, STI or STR being executed, or it is 0xFE00 or 0xFE02 and the
\* cycle read the keyboard status address 0xFE00 (in its fetch or in its
\* handler); no other step changes memory at all.
C20_MemoryFrame == [][C20_MemStep]_vars

\* ADD R1, R1, #1 then STR R1, R1, #-1: cell 0 holds 1, nothing else changed.
C20_Witness ==
    /\ steps = 2
    /\ instr = EncBase(OP_STR, 1, 1, -1)
    /\ Cell(memory, 0) = 1
    /\ Cell(memory, 1) = 0

\* What an LD, ST or LEA cycle does with its effective address A.
C21_PcRelStep ==
    LET i == instr'
        A == Wrap(registers[R_PC] + 1 + Signed(Bits(i, 0, 9), 9))
        r == Bits(i, 9, 3)
    IN  /\ CycleOf(OP_LD) =>
              /\ Len(reads') = 2
              /\ reads'[2].addr = A
              /\ registers'[r] = reads'[2].val
              /\ InArray(A) => registers'[r] = Cell(memory', A)
              /\ (InArray(A) /\ A # MR_KBSR) => registers'[r] = Cell(memory, A)
        /\ CycleOf(OP_ST) =>
              /\ Len(reads') = 1
              /\ Changed(memory, memory') \subseteq {A}
              /\ InArray(A) => Cell(memory', A) = registers[r]
              /\ ~InArray(A) => oob'
        /\ CycleOf(OP_LEA) =>
              /\ Len(reads') = 1
              /\ registers'[r] = A
              /\ memory' = memory

\* C21: LD, ST and LEA take as effective address A = (address of the
\* instruction + 1 + signed 9-bit offset) mod 2^16.  LD reads address A and
\* puts the word read in DR, which is the word of cell A; ST leaves the
\* register at bits 11:9 in cell A and changes no other cell; LEA puts A
\* itself in DR and reads no memory beyond the fetch.  (The contents of cell
\* A are stated for A a cell of the array.)
C21_PcRelative == [][C21_PcRelStep]_vars

\* ST R0, #2 fetched at 0xFFFE with R0 = 0xFFFE: the address wrapped past
\* 0xFFFF to 0x0001, and that cell holds R0.
C21_Witness ==
    /\ steps = 4
    /\ instr = EncPC9(OP_ST, 0, 2)
    /\ registers[R_PC] = UINT16_MAX
    /\ Cell(memory, 1) = UINT16_MAX - 1

\* The opcodes whose handlers assign the program counter.
JumpOps == {OP_BR, OP_JMP, OP_JSR}

\* What the fetch of a cycle does.
C22_FetchStep ==
    LET pc == registers[R_PC]
        op == Bits(instr', 12, 4)
    IN  /\ steps = 0 => pc = PC_START
        /\ CycleStep =>
              /\ reads'[1].addr = pc
              /\ instr' = reads'[1].val
              /\ (InArray(pc) /\ pc # MR_KBSR) => instr' = Cell(memory, pc)
              /\ op \notin JumpOps => registers'[R_PC] = (pc + 1) % Word
              /\ op = OP_JSR => registers'[R_R7] = (pc + 1) % Word
              /\ pc = UINT16_MAX =>
                    /\ op \notin JumpOps => registers'[R_PC] = 0
                    /\ op \notin {OP_RTI, OP_RES, OP_TRAP} => (at' = "loop" /\ running')

\* C22: the loop is entered with the program counter at 0x3000; every cycle
\* reads its instruction at the program counter and the handler then finds
\* the program counter incremented by exactly one modulo 2^16 (it is what a
\* JSR saves, and what every handler that is not a jump leaves); after a
\* fetch at 0xFFFF the program counter is 0x0000 and the loop goes on.
C22_Fetch == [][C22_FetchStep]_vars

\* After a fetch at 0xFFFF the next cycle fetched ADD R1, R1, #1 at 0x0000
\* and executed it.
C22_Witness ==
    /\ steps = 4
    /\ oob
    /\ reads[1].addr = 0
    /\ instr = EncRRI(OP_ADD, 1, 1, 1)
    /\ registers[1] = 1
    /\ registers[R_PC] = 1
    /\ at = "loop" /\ running

\* What a JMP cycle does.
C23_JmpStep ==
    CycleOf(OP_JMP) =>
        LET base == Bits(instr', 6, 3)
        IN  /\ registers'[R_PC] = registers[base]
            /\ SameRegs
            /\ memory' = memory
            /\ out' = out /\ kbd' = kbd
            /\ at' = "loop" /\ running'
            /\ (base = R_R7 /\ link.kept) => registers'[R_PC] = link.ret

\* C23: a JMP cycle sets the program counter to the value of the register
\* at bits 8:6 and changes no other register, no memory cell and no output;
\* when the base register is R7 and R7 has not changed since the last
\* offset-mode JSR, fetched at address a, the program counter becomes
\* (a + 1) mod 2^16.
C23_JmpReturn == [][C23_JmpStep]_vars

\* JSR at 0x3000 called 0x3002, ADD R1, R1, #1 ran there, and JMP R7 has
\* returned to 0x3001.
C23_Witness ==
    /\ steps = 3
    /\ instr = EncJMP(7)
    /\ link = [ret |-> PC_START + 1, kept |-> TRUE]
    /\ registers[1] = 1
    /\ registers[R_PC] = PC_START + 1

\* What loading one image does to memory.  BE(n) is the n-th 16-bit word of
\* the file read big-endian, Host(n) the same two bytes as fread leaves
\* them in a word of the host.
C24_LoadStep ==
    (ld'.j = ld.j + 1) =>
        LET bytes == Disk[ld.argv[ld.j]]
            BE(n) == bytes[2 * n - 1] * 256 + bytes[2 * n]
            Host(n) == bytes[2 * n - 1] + 256 * bytes[2 * n]
            Swapped(w) == (w % 256) * 256 + (w \div 256)
            count == (Len(bytes) \div 2) - 1
            o == BE(1)
        IN  /\ \A i \in 0..(count - 1) :
                 InArray(o + i) =>
                     /\ Cell(memory', o + i) = Swapped(Host(i + 2))
                     /\ Cell(memory', o + i) = BE(i + 2)
            /\ \A a \in Changed(memory, memory') : a >= o /\ a < o + count
            /\ \A a \in DOMAIN memory' : InArray(a)

ScanEnd(m, a) ==
    LET free == {c \in {a} \cup {d + 1 : d \in {x \in DOMAIN m : x >= a}} :
                    c \notin DOMAIN m}
    IN  CHOOSE z \in free : \A y \in free : z <= y

\* One byte per cell of a..z-1, and the one or two bytes of each.
LowBytes(m, a, z) == [n \in 1..(z - a) |-> Cell(m, a + n - 1) % 256]

RECURSIVE PackedBytes(_, _, _)
PackedBytes(m, a, z) ==
    IF a >= z THEN <<>>
    ELSE LET w == Cell(m, a)
         IN  <<w % 256>> \o (IF w \div 256 # 0 THEN <<w \div 256>> ELSE <<>>)
                 \o PackedBytes(m, a + 1, z)

\* What a PUTS or PUTSP cycle writes when the string ends inside the array.
C25_StringStep ==
    (CycleOf(OP_TRAP) /\ Bits(instr', 0, 8) \in {TRAP_PUTS, TRAP_PUTSP}) =>
        LET a == registers[R_R0]
            z == ScanEnd(memory, a)
        IN  InArray(z) =>
                /\ Bits(instr', 0, 8) = TRAP_PUTS =>
                       out' = out \o LowBytes(memory, a, z)
                /\ Bits(instr', 0, 8) = TRAP_PUTSP =>
                       out' = out \o PackedBytes(memory, a, z)
                /\ Cell(memory, a) = 0 => out' = out

\* C25: PUTS appends to the output the low byte of each cell from address
\* R0 on, in address order, up to but not including the first zero word,
\* and nothing when memory[R0] is 0; PUTSP appends for each such cell its
\* low byte and then its high byte when that is not 0.  (Stated for strings
\* whose zero word is a cell of the array.)
C25_Strings == [][C25_StringStep]_vars

\* PUTSP has written the words 0x6548, 0x006C, 0xFE00: 'H' 'e', 'l' alone,
\* then the zero low byte and 0xFE.
C25_Witness ==
    /\ steps = 2
    /\ instr = EncTRAP(TRAP_PUTSP)
    /\ registers[R_R0] = PC_START + 3
    /\ out = <<72, 101, 108, 0, 254>>

\* A PUTS or PUTSP cycle indexes only cells of the array.
C26_ScanStep ==
    (CycleOf(OP_TRAP) /\ Bits(instr', 0, 8) \in {TRAP_PUTS, TRAP_PUTSP}) =>
        (oob' = oob)

\* C26: whatever R0 and memory hold, the scan of PUTS and PUTSP reads only
\* cells of memory: when no zero word lies between address R0 and the last
\* cell, it stops there and does not read past the end of the array.
C26_ScanInArray == [][C26_ScanStep]_vars

====
